---- MODULE Spec2Model ----
(***************************************************************************)
(* now-mcp: a line-delimited JSON-RPC host (src/src/main.rs).              *)
(*                                                                         *)
(* The process builds its server state once (ContextServerState::new),     *)
(* then runs the transport loop of main: read a line, decode it, hand the  *)
(* request to process_request, and write the response, if any, followed by *)
(* a newline and a flush.  Every `?` of main ends the process with an      *)
(* error.                                                                  *)
(*                                                                         *)
(* The three registry modules (mod tool_registry, prompt_registry,         *)
(* resource_registry) and the dispatch behind handle_incoming_message are  *)
(* not part of src/src/main.rs; they are modelled from spec.md sections    *)
(* 4.1, 4.2 and 6.                                                         *)
(***************************************************************************)
EXTENDS Integers, Sequences, FiniteSets, TLC

\* Number of input lines the client sends at most.
MaxLines == 3

\* A request without an id (a notification) carries NoId.
NoId == 0

VARIABLES
    pc,                 \* position of the main task
    resource_registry,  \* main.rs:29
    tool_registry,      \* main.rs:31
    prompt_registry,    \* main.rs:34
    rpc,                \* ContextServerState.rpc (main.rs:24)
    nRead,              \* lines returned by next_line so far
    line,               \* the line bound by `while let Some(line)`
    request,            \* the decoded request (main.rs:62)
    response,           \* what process_request returned (main.rs:70)
    response_json,      \* main.rs:71
    wbuf,               \* chunks handed to stdout.write_all, not yet flushed
    stdout,             \* response lines flushed to standard output
    errlog,             \* lines printed by eprintln! (main.rs:65)
    exitCause,          \* why main returned
    terminal,           \* dispatcher state the current request ended in
    invoked,            \* capability behaviours run for the current request
    registerLog,        \* register calls made so far, each with when it was made
    nLookups,           \* lookup/list operations performed so far
    malformed,          \* lines read so far that do not decode into a request
    ioFailure,          \* the transport failure that has happened, if any
    expected,           \* numbers of the lines read that decode into a request with an id
    phase,              \* registry exercise: "off", "populate" or "steady"
    reg,                \* registry exercise: the registry
    calls,              \* registry exercise: the records passed to register, in order
    lk                  \* registry exercise: the lookups in progress

vars == <<pc, resource_registry, tool_registry, prompt_registry, rpc, nRead,
          line, request, response, response_json, wbuf, stdout, errlog,
          exitCause, terminal, invoked, registerLog, nLookups, malformed,
          ioFailure, expected, phase, reg, calls, lk>>

(***************************************************************************)
(* Values                                                                  *)
(***************************************************************************)
ListMethods == {"list-tools", "list-prompts", "list-resources"}
InvokeMethods == {"call-tool", "get-prompt", "read-resource"}
Methods == {"initialize"} \cup ListMethods \cup InvokeMethods

\* Capability names a client may send: the two registered ones and one that
\* nobody registers.
Names == {"now", "Now", "missing"}

NoLine == [kind |-> "none"]
NoRequest == [kind |-> "none"]
None == [some |-> FALSE]
Some(v) == [some |-> TRUE, value |-> v]
NoRpc == [built |-> FALSE]

\* The k-th line of input: undecodable bytes, text that is no request, or a
\* request.  A request that carries an id carries its line number.
RequestLines(k) ==
    [kind : {"request"}, method : ListMethods \cup {"initialize"},
     id : {NoId, k}, name : {""}, hasArguments : {FALSE}]
    \cup
    [kind : {"request"}, method : InvokeMethods,
     id : {NoId, k}, name : Names, hasArguments : BOOLEAN]

Lines(k) == {[kind |-> "bad_utf8"], [kind |-> "bad_json"]} \cup RequestLines(k)

(***************************************************************************)
(* The sample capabilities (main.rs:81-144)                                *)
(***************************************************************************)
\* get_current_time_info: three non-empty lines of text.
get_current_time_info ==
    <<"Current local time: <local_now>",
      "Week of the year: <week>",
      "Day of the week: <day>">>

NowTool_to_tool ==
    [name |-> "now",
     description |-> "Retrieve the current local time, week of the year, and day of the week.",
     input_schema |-> [type |-> "object", properties |-> <<>>]]

\* execute returning no content block.
NowTool_execute_Empty(arguments) == [ok |-> TRUE, value |-> <<>>]

NowTool_execute(arguments) ==
    [ok |-> TRUE,
     value |-> <<[type |-> "text", text |-> get_current_time_info]>>]

\* name() in lower case.
NowPrompt_name_Lower == "now"

NowPrompt_name == "Now"

NowPrompt_to_prompt == [name |-> NowPrompt_name, arguments |-> <<>>]

NowPrompt_compute(arguments) ==
    [ok |-> TRUE,
     value |-> [description |-> "Current time information",
                messages |-> <<[role |-> "user",
                                content |-> [type |-> "text",
                                             text |-> get_current_time_info]]>>]]

\* A capability record: descriptor plus behaviour.
NowToolRecord ==
    [name |-> NowTool_to_tool.name, descriptor |-> NowTool_to_tool,
     behavior |-> "NowTool"]

NowPromptRecord ==
    [name |-> NowPrompt_name, descriptor |-> NowPrompt_to_prompt,
     behavior |-> "NowPrompt"]

\* Running a behaviour with an optional argument payload.
Invoke(behavior, arguments) ==
    IF behavior = "NowTool" THEN NowTool_execute(arguments)
    ELSE NowPrompt_compute(arguments)

(***************************************************************************)
(* Registry (spec.md 4.1): a name-indexed store kept in registration order *)
(***************************************************************************)
RegistryDefault == <<>>

Has(registry, name) == \E i \in 1..Len(registry) : registry[i].name = name

\* register that stores the record in place of the whole content.
Register_Clobbers(registry, record) == <<record>>

\* register(record): inserts under record.name; a record of the same name is
\* replaced in place.
Register(registry, record) ==
    IF Has(registry, record.name)
    THEN [i \in 1..Len(registry) |->
             IF registry[i].name = record.name THEN record ELSE registry[i]]
    ELSE Append(registry, record)

\* lookup(name): the record, or absence.
Lookup(registry, name) ==
    IF Has(registry, name)
    THEN Some(registry[CHOOSE i \in 1..Len(registry) : registry[i].name = name])
    ELSE None

\* list that leaves out the entry registered first.
List_SkipsFirst(registry) ==
    [i \in 1..(Len(registry) - 1) |-> registry[i + 1].descriptor]

\* list(): every registered descriptor.
List(registry) == [i \in 1..Len(registry) |-> registry[i].descriptor]

(***************************************************************************)
(* Dispatcher (spec.md 4.2, 6, 7)                                          *)
(***************************************************************************)
Kind(method) ==
    CASE method \in {"list-tools", "call-tool"} -> "Tool"
      [] method \in {"list-prompts", "get-prompt"} -> "Prompt"
      [] method \in {"list-resources", "read-resource"} -> "Resource"
      [] OTHER -> "None"

Operation(method) ==
    CASE method \in ListMethods -> "list"
      [] method \in InvokeMethods -> "invoke"
      [] OTHER -> "handshake"

\* The registry of one kind held by the dispatcher.
Selected(server, kind) ==
    CASE kind = "Tool" -> server.tools
      [] kind = "Prompt" -> server.prompts
      [] OTHER -> server.resources

NotFound(name) == [code |-> "not_found", name |-> name]
InvocationFailure(message) == [code |-> "invocation_failure", message |-> message]

\* A response is produced for a request that carries an id, and only for it.
Reply(id, kind, body) ==
    IF id = NoId THEN None ELSE Some([id |-> id, kind |-> kind, body |-> body])

\* Resolve the named capability in the selected registry; invoke it when it
\* is there, fail with Not Found without invoking when it is not.
DispatchInvoke(server, req) ==
    LET found == Lookup(Selected(server, Kind(req.method)), req.name)
        out == Invoke(found.value.behavior, req.arguments)
    IN  IF ~found.some
        THEN [ok |-> TRUE, terminal |-> "Failed", invoked |-> <<>>, lookups |-> 1,
              response |-> Reply(req.id, "error", NotFound(req.name))]
        ELSE [ok |-> TRUE,
              terminal |-> IF out.ok THEN "Completed" ELSE "Failed",
              invoked |-> <<[kind |-> Kind(req.method), name |-> found.value.name,
                             behavior |-> found.value.behavior]>>,
              lookups |-> 1,
              response |-> IF out.ok
                           THEN Reply(req.id, "result", out.value)
                           ELSE Reply(req.id, "error", InvocationFailure(out.value))]

DispatchList(server, req) ==
    [ok |-> TRUE, terminal |-> "Completed", invoked |-> <<>>, lookups |-> 1,
     response |-> Reply(req.id, "result",
                        List(Selected(server, Kind(req.method))))]

DispatchInitialize(server, req) ==
    [ok |-> TRUE, terminal |-> "Completed", invoked |-> <<>>, lookups |-> 0,
     response |-> Reply(req.id, "result", server.server_info)]

\* ContextServer::handle_incoming_message: Result<Option<Response>> plus what
\* the dispatch did on the way.
handle_incoming_message(server, req) ==
    CASE Operation(req.method) = "list" -> DispatchList(server, req)
      [] Operation(req.method) = "invoke" -> DispatchInvoke(server, req)
      [] OTHER -> DispatchInitialize(server, req)

(***************************************************************************)
(* Decoding and encoding (main.rs:62, 71)                                  *)
(***************************************************************************)
\* serde_json::from_str(&line): a request, or an error.
from_str(l) ==
    IF l.kind = "request"
    THEN [ok |-> TRUE,
          value |-> [kind |-> "request", method |-> l.method, id |-> l.id,
                     name |-> l.name,
                     arguments |-> IF l.hasArguments THEN Some(<<>>) ELSE None]]
    ELSE [ok |-> FALSE]

\* serde_json::to_string(&response): one line of JSON text, remembered with
\* the number of the input line it answers.
to_string(resp, src) == [src |-> src, json |-> resp]

(***************************************************************************)
(* ContextServerState::new (main.rs:28-45)                                 *)
(***************************************************************************)
ProgInit ==
    /\ pc = "new"
    /\ resource_registry = RegistryDefault
    /\ tool_registry = RegistryDefault
    /\ prompt_registry = RegistryDefault
    /\ rpc = NoRpc
    /\ nRead = 0
    /\ line = NoLine
    /\ request = NoRequest
    /\ response = None
    /\ response_json = None
    /\ wbuf = <<>>
    /\ stdout = <<>>
    /\ errlog = 0
    /\ exitCause = "none"
    /\ terminal = "none"
    /\ invoked = <<>>
    /\ registerLog = <<>>
    /\ nLookups = 0
    /\ malformed = 0
    /\ ioFailure = "none"
    /\ expected = {}

Init ==
    /\ ProgInit
    /\ phase = "off"
    /\ reg = RegistryDefault
    /\ calls = <<>>
    /\ lk = <<>>

\* The variables of the registry exercise (RegistrySpec); the program leaves
\* them alone.
benchVars == <<phase, reg, calls, lk>>

loopVars == <<nRead, line, request, response, response_json, wbuf, stdout,
              errlog, exitCause, terminal, invoked, nLookups, malformed,
              ioFailure, expected, benchVars>>

\* One register call, remembered with the moment it was made.
RegisterCall(kind, name) ==
    [kind |-> kind, name |-> name, afterBuild |-> rpc.built,
     linesRead |-> nRead, lookups |-> nLookups]

\* main.rs:29
NewResourceRegistry ==
    /\ pc = "new"
    /\ resource_registry' = RegistryDefault
    /\ pc' = "tools"
    /\ UNCHANGED <<tool_registry, prompt_registry, rpc, registerLog>>
    /\ UNCHANGED loopVars

\* main.rs:31-32
RegisterTool ==
    /\ pc = "tools"
    /\ tool_registry' = Register(tool_registry, NowToolRecord)
    /\ registerLog' = Append(registerLog, RegisterCall("Tool", NowToolRecord.name))
    /\ pc' = "prompts"
    /\ UNCHANGED <<resource_registry, prompt_registry, rpc>>
    /\ UNCHANGED loopVars

\* RegisterPrompt with the registration made late: new() goes on to build the
\* dispatcher, and the prompt is registered once the loop is already running.
RegisterPrompt_Late ==
    \/ /\ pc = "prompts"
       /\ pc' = "build"
       /\ UNCHANGED <<resource_registry, tool_registry, prompt_registry, rpc,
                      registerLog>>
       /\ UNCHANGED loopVars
    \/ /\ pc = "read"
       /\ ~Has(prompt_registry, NowPromptRecord.name)
       /\ prompt_registry' = Register(prompt_registry, NowPromptRecord)
       /\ rpc' = [rpc EXCEPT !.prompts = Register(rpc.prompts, NowPromptRecord)]
       /\ registerLog' = Append(registerLog, RegisterCall("Prompt", NowPromptRecord.name))
       /\ UNCHANGED <<pc, resource_registry, tool_registry>>
       /\ UNCHANGED loopVars

\* main.rs:34-35
RegisterPrompt ==
    /\ pc = "prompts"
    /\ prompt_registry' = Register(prompt_registry, NowPromptRecord)
    /\ registerLog' = Append(registerLog, RegisterCall("Prompt", NowPromptRecord.name))
    /\ pc' = "build"
    /\ UNCHANGED <<resource_registry, tool_registry, rpc>>
    /\ UNCHANGED loopVars

\* Build with the resource slot given the tool registry.
Build_ResourcesFromTools ==
    /\ pc = "build"
    /\ rpc' = [built |-> TRUE,
               server_info |-> [name |-> "CARGO_PKG_NAME", version |-> "CARGO_PKG_VERSION"],
               resources |-> tool_registry,
               tools |-> tool_registry,
               prompts |-> prompt_registry]
    /\ pc' = "read"
    /\ UNCHANGED <<resource_registry, tool_registry, prompt_registry, registerLog>>
    /\ UNCHANGED loopVars

\* Build with the prompt slot given the tool registry.
Build_PromptsFromTools ==
    /\ pc = "build"
    /\ rpc' = [built |-> TRUE,
               server_info |-> [name |-> "CARGO_PKG_NAME", version |-> "CARGO_PKG_VERSION"],
               resources |-> resource_registry,
               tools |-> tool_registry,
               prompts |-> tool_registry]
    /\ pc' = "read"
    /\ UNCHANGED <<resource_registry, tool_registry, prompt_registry, registerLog>>
    /\ UNCHANGED loopVars

\* Build with the tool and prompt registries swapped.
Build_SwapsRegistries ==
    /\ pc = "build"
    /\ rpc' = [built |-> TRUE,
               server_info |-> [name |-> "CARGO_PKG_NAME", version |-> "CARGO_PKG_VERSION"],
               resources |-> resource_registry,
               tools |-> prompt_registry,
               prompts |-> tool_registry]
    /\ pc' = "read"
    /\ UNCHANGED <<resource_registry, tool_registry, prompt_registry, registerLog>>
    /\ UNCHANGED loopVars

\* main.rs:37-44.  The builder is given the server info and all three
\* registries; the dispatcher shares the registries with new().
Build ==
    /\ pc = "build"
    /\ rpc' = [built |-> TRUE,
               server_info |-> [name |-> "CARGO_PKG_NAME", version |-> "CARGO_PKG_VERSION"],
               resources |-> resource_registry,
               tools |-> tool_registry,
               prompts |-> prompt_registry]
    /\ pc' = "read"
    /\ UNCHANGED <<resource_registry, tool_registry, prompt_registry, registerLog>>
    /\ UNCHANGED loopVars

setupVars == <<resource_registry, tool_registry, prompt_registry, rpc,
               registerLog, benchVars>>

regVars == <<setupVars, expected>>

(***************************************************************************)
(* main (main.rs:56-79)                                                    *)
(***************************************************************************)
\* ReadLine that also runs while the previous request is still being
\* processed.
ReadLine_DuringInvocation ==
    /\ pc \in {"read", "process"}
    /\ nRead < MaxLines
    /\ \E l \in Lines(nRead + 1) :
          /\ line' = l
          /\ IF l.kind = "bad_utf8"
             THEN pc' = "exit_err" /\ exitCause' = "invalid_data"
             ELSE pc' = "parse" /\ exitCause' = exitCause
    /\ nRead' = nRead + 1
    /\ request' = NoRequest
    /\ response' = None
    /\ response_json' = None
    /\ terminal' = "none"
    /\ invoked' = <<>>
    /\ malformed' = IF from_str(line').ok THEN malformed ELSE malformed + 1
    /\ expected' = IF from_str(line').ok /\ from_str(line').value.id # NoId
                   THEN expected \cup {nRead + 1}
                   ELSE expected
    /\ UNCHANGED <<wbuf, stdout, errlog, nLookups, ioFailure>>
    /\ UNCHANGED setupVars

\* stdin.next_line().await? returning Some(line); bytes that are not UTF-8
\* make next_line return an InvalidData error, which `?` returns from main.
ReadLine ==
    /\ pc = "read"
    /\ nRead < MaxLines
    /\ \E l \in Lines(nRead + 1) :
          /\ line' = l
          /\ IF l.kind = "bad_utf8"
             THEN pc' = "exit_err" /\ exitCause' = "invalid_data"
             ELSE pc' = "parse" /\ exitCause' = exitCause
    /\ nRead' = nRead + 1
    /\ request' = NoRequest
    /\ response' = None
    /\ response_json' = None
    /\ terminal' = "none"
    /\ invoked' = <<>>
    /\ malformed' = IF from_str(line').ok THEN malformed ELSE malformed + 1
    /\ expected' = IF from_str(line').ok /\ from_str(line').value.id # NoId
                   THEN expected \cup {nRead + 1}
                   ELSE expected
    /\ UNCHANGED <<wbuf, stdout, errlog, nLookups, ioFailure>>
    /\ UNCHANGED setupVars

\* ReadEof with the end of input reported as a failure of main.
ReadEof_ExitsWithError ==
    /\ pc = "read"
    /\ pc' = "exit_err"
    /\ exitCause' = "eof"
    /\ UNCHANGED <<nRead, line, request, response, response_json, wbuf, stdout,
                   errlog, terminal, invoked, nLookups, malformed, ioFailure>>
    /\ UNCHANGED regVars

\* next_line returning None: end of input, main returns Ok(()).
ReadEof ==
    /\ pc = "read"
    /\ pc' = "exit_ok"
    /\ exitCause' = "eof"
    /\ UNCHANGED <<nRead, line, request, response, response_json, wbuf, stdout,
                   errlog, terminal, invoked, nLookups, malformed, ioFailure>>
    /\ UNCHANGED regVars

\* next_line failing on standard input.
ReadError ==
    /\ pc = "read"
    /\ pc' = "exit_err"
    /\ exitCause' = "read_err"
    /\ ioFailure' = "read"
    /\ UNCHANGED <<nRead, line, request, response, response_json, wbuf, stdout,
                   errlog, terminal, invoked, nLookups, malformed>>
    /\ UNCHANGED regVars

\* main.rs:62-68
ParseLine ==
    /\ pc = "parse"
    /\ LET r == from_str(line)
       IN  IF r.ok
           THEN /\ request' = r.value
                /\ pc' = "process"
                /\ errlog' = errlog
           ELSE /\ request' = request
                /\ pc' = "read"
                /\ errlog' = errlog + 1
    /\ UNCHANGED <<nRead, line, response, response_json, wbuf, stdout, exitCause,
                   terminal, invoked, nLookups, malformed, ioFailure>>
    /\ UNCHANGED regVars

\* ProcessRequest with an error response treated like Err: `?` returns it
\* from main.
ProcessRequest_ErrorIsFatal ==
    /\ pc = "process"
    /\ LET r == handle_incoming_message(rpc, request)
           fatal == ~r.ok \/ (r.response.some /\ r.response.value.kind = "error")
       IN  /\ terminal' = r.terminal
           /\ invoked' = r.invoked
           /\ nLookups' = nLookups + r.lookups
           /\ IF fatal
              THEN pc' = "exit_err" /\ exitCause' = "handler_err" /\ response' = None
              ELSE /\ response' = r.response
                   /\ exitCause' = exitCause
                   /\ pc' = IF r.response.some THEN "serialize" ELSE "read"
    /\ UNCHANGED <<nRead, line, request, response_json, wbuf, stdout, errlog,
                   malformed, ioFailure>>
    /\ UNCHANGED regVars

\* ProcessRequest with the response dropped: the loop goes on to the next
\* line without writing.
ProcessRequest_DropsResponse ==
    /\ pc = "process"
    /\ LET r == handle_incoming_message(rpc, request)
       IN  /\ terminal' = r.terminal
           /\ invoked' = r.invoked
           /\ nLookups' = nLookups + r.lookups
           /\ IF ~r.ok
              THEN pc' = "exit_err" /\ exitCause' = "handler_err" /\ response' = None
              ELSE /\ response' = r.response
                   /\ exitCause' = exitCause
                   /\ pc' = "read"
    /\ UNCHANGED <<nRead, line, request, response_json, wbuf, stdout, errlog,
                   malformed, ioFailure>>
    /\ UNCHANGED regVars

\* ProcessRequest with None written out as a response without an id.
ProcessRequest_AnswersNotifications ==
    /\ pc = "process"
    /\ LET r == handle_incoming_message(rpc, request)
       IN  /\ terminal' = r.terminal
           /\ invoked' = r.invoked
           /\ nLookups' = nLookups + r.lookups
           /\ IF ~r.ok
              THEN pc' = "exit_err" /\ exitCause' = "handler_err" /\ response' = None
              ELSE /\ response' = IF r.response.some THEN r.response
                                  ELSE Some([id |-> NoId, kind |-> "result", body |-> <<>>])
                   /\ exitCause' = exitCause
                   /\ pc' = "serialize"
    /\ UNCHANGED <<nRead, line, request, response_json, wbuf, stdout, errlog,
                   malformed, ioFailure>>
    /\ UNCHANGED regVars

\* ProcessRequest that uses a capability up: once invoked, its entry is gone
\* from the registry.
ProcessRequest_ConsumesCapability ==
    /\ pc = "process"
    /\ LET r == handle_incoming_message(rpc, request)
           used == {r.invoked[i].name : i \in 1..Len(r.invoked)}
           keep(registry) == SelectSeq(registry, LAMBDA e : e.name \notin used)
       IN  /\ terminal' = r.terminal
           /\ invoked' = r.invoked
           /\ nLookups' = nLookups + r.lookups
           /\ response' = r.response
           /\ exitCause' = exitCause
           /\ pc' = IF r.response.some THEN "serialize" ELSE "read"
           /\ rpc' = [rpc EXCEPT !.tools = keep(rpc.tools), !.prompts = keep(rpc.prompts)]
           /\ tool_registry' = keep(tool_registry)
           /\ prompt_registry' = keep(prompt_registry)
    /\ UNCHANGED <<nRead, line, request, response_json, wbuf, stdout, errlog,
                   malformed, ioFailure, expected, resource_registry, registerLog,
                   benchVars>>

\* main.rs:70 with process_request (main.rs:47-52)
ProcessRequest ==
    /\ pc = "process"
    /\ LET r == handle_incoming_message(rpc, request)
       IN  /\ terminal' = r.terminal
           /\ invoked' = r.invoked
           /\ nLookups' = nLookups + r.lookups
           /\ IF ~r.ok
              THEN pc' = "exit_err" /\ exitCause' = "handler_err" /\ response' = None
              ELSE /\ response' = r.response
                   /\ exitCause' = exitCause
                   /\ pc' = IF r.response.some THEN "serialize" ELSE "read"
    /\ UNCHANGED <<nRead, line, request, response_json, wbuf, stdout, errlog,
                   malformed, ioFailure>>
    /\ UNCHANGED regVars

\* main.rs:71.  The response is a plain envelope of strings, numbers and
\* lists, which serde_json::to_string always encodes.
SerializeResponse ==
    /\ pc = "serialize"
    /\ response_json' = Some(to_string(response.value, nRead))
    /\ pc' = "write"
    /\ UNCHANGED <<nRead, line, request, response, wbuf, stdout, errlog, exitCause,
                   terminal, invoked, nLookups, malformed, ioFailure>>
    /\ UNCHANGED regVars

\* main.rs:72
WriteJson ==
    /\ pc = "write"
    /\ wbuf' = Append(wbuf, [t |-> "json", line |-> response_json.value])
    /\ pc' = "write_nl"
    /\ UNCHANGED <<nRead, line, request, response, response_json, stdout, errlog,
                   exitCause, terminal, invoked, nLookups, malformed, ioFailure>>
    /\ UNCHANGED regVars

\* WriteNewline with the flush left out: the loop reads on with the response
\* still unflushed.
WriteNewline_NoFlush ==
    /\ pc = "write_nl"
    /\ wbuf' = Append(wbuf, [t |-> "nl"])
    /\ pc' = "read"
    /\ UNCHANGED <<nRead, line, request, response, response_json, stdout, errlog,
                   exitCause, terminal, invoked, nLookups, malformed, ioFailure>>
    /\ UNCHANGED regVars

\* main.rs:73
WriteNewline ==
    /\ pc = "write_nl"
    /\ wbuf' = Append(wbuf, [t |-> "nl"])
    /\ pc' = "flush"
    /\ UNCHANGED <<nRead, line, request, response, response_json, stdout, errlog,
                   exitCause, terminal, invoked, nLookups, malformed, ioFailure>>
    /\ UNCHANGED regVars

\* The complete lines among the chunks written.
CompleteLines(buf) ==
    LET idx == {i \in 1..Len(buf) : buf[i].t = "json" /\ i < Len(buf) /\ buf[i + 1].t = "nl"}
        f[i \in 0..Len(buf)] ==
            IF i = 0 THEN <<>>
            ELSE IF i \in idx THEN Append(f[i - 1], buf[i].line) ELSE f[i - 1]
    IN  f[Len(buf)]

\* main.rs:74
Flush ==
    /\ pc = "flush"
    /\ stdout' = stdout \o CompleteLines(wbuf)
    /\ wbuf' = <<>>
    /\ pc' = "read"
    /\ UNCHANGED <<nRead, line, request, response, response_json, errlog,
                   exitCause, terminal, invoked, nLookups, malformed, ioFailure>>
    /\ UNCHANGED regVars

\* WriteError with the error ignored: the loop reads on.
WriteError_Ignored ==
    /\ pc \in {"write", "write_nl", "flush"}
    /\ pc' = "read"
    /\ ioFailure' = "write"
    /\ UNCHANGED <<nRead, line, request, response, response_json, wbuf, stdout,
                   errlog, exitCause, terminal, invoked, nLookups, malformed>>
    /\ UNCHANGED regVars

\* write_all or flush failing on standard output (main.rs:72-74): `?` returns
\* the error from main.
WriteError ==
    /\ pc \in {"write", "write_nl", "flush"}
    /\ pc' = "exit_err"
    /\ exitCause' = "write_err"
    /\ ioFailure' = "write"
    /\ UNCHANGED <<nRead, line, request, response, response_json, wbuf, stdout,
                   errlog, terminal, invoked, nLookups, malformed>>
    /\ UNCHANGED regVars

Next ==
    \/ NewResourceRegistry
    \/ RegisterTool
    \/ RegisterPrompt
    \/ Build
    \/ ReadLine
    \/ ReadEof
    \/ ReadError
    \/ ParseLine
    \/ ProcessRequest
    \/ SerializeResponse
    \/ WriteJson
    \/ WriteNewline
    \/ Flush
    \/ WriteError

Spec == Init /\ [][Next]_vars

\* The program with every step that can be taken eventually taken: the
\* runtime keeps polling the main task, each awaited invocation completes,
\* and standard input delivers its next line or its end.
FairSpec == Init /\ [][Next]_vars /\ WF_vars(Next)

(***************************************************************************)
(* Registry exercise: one registry of one kind, populated by any sequence  *)
(* of register calls and then read by concurrent lookups and lists         *)
(* (spec.md 4.1, 5, 8).                                                    *)
(***************************************************************************)
\* Register calls made at most.
MaxCalls == 3

\* Readers running at once.
NLookers == 2

BenchNames == {"a", "b"}

\* Two records may carry the same name and differ in everything else.
BenchVersions == {"v1", "v2"}

BenchRecord(n, v) ==
    [name |-> n, descriptor |-> [name |-> n, description |-> v], behavior |-> v]

BenchRecords == {BenchRecord(n, v) : n \in BenchNames, v \in BenchVersions}

\* Names a reader may ask for: the registrable ones and one never registered.
LookupNames == BenchNames \cup {"missing"}

Lookers == 1..NLookers

Idle == [pc |-> "idle", op |-> "none", name |-> "", result |-> None, listing |-> <<>>]

progVars == <<pc, resource_registry, tool_registry, prompt_registry, rpc,
              registerLog, nRead, line, request, response, response_json, wbuf,
              stdout, errlog, exitCause, terminal, invoked, nLookups, malformed,
              ioFailure, expected>>

RegInit ==
    /\ ProgInit
    /\ phase = "populate"
    /\ reg = RegistryDefault
    /\ calls = <<>>
    /\ lk = [p \in Lookers |-> Idle]

\* registry.register(record), during the initialization phase.
BenchRegister ==
    /\ phase = "populate"
    /\ Len(calls) < MaxCalls
    /\ \E r \in BenchRecords :
          /\ reg' = Register(reg, r)
          /\ calls' = Append(calls, r)
    /\ UNCHANGED <<phase, lk>>
    /\ UNCHANGED progVars

\* The initialization barrier: registration is over, readers may start.
BenchSeal ==
    /\ phase = "populate"
    /\ phase' = "steady"
    /\ UNCHANGED <<reg, calls, lk>>
    /\ UNCHANGED progVars

\* A reader that takes the entry out of the registry while it works on it
\* and puts it back when done.
LookupStep_Takes(p) ==
    /\ phase = "steady"
    /\ \/ /\ lk[p].pc = "idle"
          /\ \E n \in LookupNames :
                lk' = [lk EXCEPT ![p] = [Idle EXCEPT !.pc = "reading",
                                                     !.op = "lookup", !.name = n,
                                                     !.result = Lookup(reg, n)]]
          /\ reg' = SelectSeq(reg, LAMBDA r : r.name # lk'[p].name)
       \/ /\ lk[p].pc = "idle"
          /\ lk' = [lk EXCEPT ![p] = [Idle EXCEPT !.pc = "reading", !.op = "list"]]
          /\ reg' = reg
       \/ /\ lk[p].pc = "reading"
          /\ lk' = [lk EXCEPT ![p].pc = "done",
                              ![p].listing = IF lk[p].op = "list" THEN List(reg) ELSE <<>>]
          /\ reg' = IF lk[p].op = "lookup" /\ lk[p].result.some
                    THEN Register(reg, lk[p].result.value)
                    ELSE reg
    /\ UNCHANGED <<phase, calls>>
    /\ UNCHANGED progVars

\* One step of a reader: it starts a lookup(name) or a list() under shared
\* (read) access, then reads the registry and finishes.  Readers do not
\* exclude one another, and none of them writes.
LookupStep(p) ==
    /\ phase = "steady"
    /\ \/ /\ lk[p].pc = "idle"
          /\ \E n \in LookupNames :
                lk' = [lk EXCEPT ![p] = [Idle EXCEPT !.pc = "reading",
                                                     !.op = "lookup", !.name = n]]
       \/ /\ lk[p].pc = "idle"
          /\ lk' = [lk EXCEPT ![p] = [Idle EXCEPT !.pc = "reading", !.op = "list"]]
       \/ /\ lk[p].pc = "reading"
          /\ lk' = [lk EXCEPT ![p].pc = "done",
                              ![p].result = IF lk[p].op = "lookup"
                                            THEN Lookup(reg, lk[p].name) ELSE None,
                              ![p].listing = IF lk[p].op = "list" THEN List(reg) ELSE <<>>]
    /\ UNCHANGED <<phase, reg, calls>>
    /\ UNCHANGED progVars

RegNext ==
    \/ BenchRegister
    \/ BenchSeal
    \/ \E p \in Lookers : LookupStep(p)

RegistrySpec == RegInit /\ [][RegNext]_vars

(***************************************************************************)
(* Properties                                                              *)
(***************************************************************************)
\* The dispatcher has handled the current request.
Processed == terminal # "none"

\* The registry that ContextServerState::new created for a kind.
OwnRegistry(kind) ==
    CASE kind = "Tool" -> tool_registry
      [] kind = "Prompt" -> prompt_registry
      [] OTHER -> resource_registry

\* The current request is an invoke request whose name is absent from the
\* registry of its method's kind.
Unresolved ==
    /\ request.kind = "request"
    /\ request.method \in InvokeMethods
    /\ ~Has(OwnRegistry(Kind(request.method)), request.name)

\* The current request is an invoke request whose name is registered in the
\* registry of its method's kind.
Resolved ==
    /\ request.kind = "request"
    /\ request.method \in InvokeMethods
    /\ Has(OwnRegistry(Kind(request.method)), request.name)

\* The response lines on standard output that answer input line k.
Answers(k) == {i \in 1..Len(stdout) : stdout[i].src = k}

\* Main has returned, and for no other reason than the transport: end of
\* input, or a failed read or write.
EndedByTransport == exitCause \in {"eof", "read_err", "write_err"}

\* C1: a call-tool / get-prompt / read-resource request (carrying an id)
\* whose name is absent from the selected registry ends in a Not Found error
\* response for that request: the absence never ends the process (main runs
\* on, or has returned only because of the transport), and once the loop is
\* back at reading, the Not Found line for that request is the last line on
\* standard output.
C1_NotFoundIsAnswered ==
    (Unresolved /\ request.id # NoId) =>
        /\ exitCause = "none" \/ EndedByTransport
        /\ Processed =>
              /\ terminal = "Failed"
              /\ response = Some([id |-> request.id, kind |-> "error",
                                  body |-> NotFound(request.name)])
        /\ (pc = "read" \/ exitCause \in {"eof", "read_err"}) =>
              /\ Len(stdout) > 0
              /\ stdout[Len(stdout)] = to_string(response.value, nRead)
              /\ wbuf = <<>>

\* C1 witness: a Not Found error was written for line 1, and the process
\* went on to answer line 2.
C1_Witness ==
    /\ Len(stdout) = 2
    /\ stdout[1].src = 1
    /\ stdout[1].json.kind = "error"
    /\ stdout[1].json.body = NotFound("missing")
    /\ stdout[2].src = 2
    /\ pc = "read"

\* C2: a line that fails to decode (invalid encoding or invalid JSON) is
\* logged once and skipped: the process is not ended by it, one error is
\* logged per such line, and nothing is written to standard output for it.
C2_MalformedLineIsSkipped ==
    (line.kind \in {"bad_utf8", "bad_json"} /\ pc # "parse") =>
        /\ exitCause = "none" \/ EndedByTransport
        /\ errlog = malformed
        /\ Answers(nRead) = {}
        /\ wbuf = <<>>

\* C4: requests are served one at a time and in order: whenever the loop is
\* about to read, everything written has been flushed and the response to the
\* line just served (if any) is on standard output; the responses on
\* standard output answer lines already read, in the order of those lines.
C4_SequentialInOrder ==
    /\ pc = "read" => wbuf = <<>>
    /\ (pc = "read" /\ response.some) =>
          /\ Len(stdout) > 0
          /\ stdout[Len(stdout)] = to_string(response.value, nRead)
    /\ \A i \in 1..Len(stdout) :
          /\ stdout[i].src \in 1..nRead
          /\ stdout[i].json.id = stdout[i].src
    /\ \A i, j \in 1..Len(stdout) : i < j => stdout[i].src < stdout[j].src
    /\ \A i \in 1..Len(wbuf) : wbuf[i].t = "json" => wbuf[i].line.src = nRead

\* C4 witness: two requests were answered, in the order they were read, with
\* a notification between them.
C4_Witness ==
    /\ Len(stdout) = 2
    /\ stdout[1].src = 1
    /\ stdout[2].src = 3
    /\ pc = "read"

\* C5: a decoded request ends in exactly one terminal state, Completed or
\* Failed; that state yields a response exactly when the request carries an
\* id; once the loop is back at reading, standard output holds one line for
\* a request with an id and none for a notification; and no line of input is
\* ever answered twice.
C5_OneResponsePerRequest ==
    /\ (request.kind = "request" /\ pc # "process") =>
          /\ terminal \in {"Completed", "Failed"}
          /\ response.some <=> request.id # NoId
          /\ response.some => response.value.id = request.id
    /\ (request.kind = "request" /\ (pc = "read" \/ exitCause \in {"eof", "read_err"})) =>
          Cardinality(Answers(nRead)) = IF request.id # NoId THEN 1 ELSE 0
    /\ \A k \in 1..nRead : Cardinality(Answers(k)) <= 1
    /\ \A i \in 1..Len(stdout) : stdout[i].src \in 1..nRead

\* C5 witness: a Failed request and a Completed request were each answered
\* by one line, and a notification by none.
C5_Witness ==
    /\ nRead = 3
    /\ pc = "read"
    /\ request.kind = "request"
    /\ request.id = NoId
    /\ Len(stdout) = 2
    /\ stdout[1].json.kind = "error"
    /\ stdout[2].json.kind = "result"

\* C6: a notification (a request with no id) never causes anything to be
\* written to standard output, whatever its method and however it ends.
C6_NotificationWritesNothing ==
    (request.kind = "request" /\ request.id = NoId) =>
        /\ response = None
        /\ response_json = None
        /\ wbuf = <<>>
        /\ Answers(nRead) = {}
        /\ pc \notin {"serialize", "write", "write_nl", "flush"}

\* C6 witness: a notification that failed (Not Found) has been handled and
\* the loop is reading again.
C6_Witness ==
    /\ request.kind = "request"
    /\ request.id = NoId
    /\ terminal = "Failed"
    /\ pc = "read"

\* C7: dispatch of a request naming a capability that is not registered in
\* the selected registry goes to Failed without invoking any capability.
C7_UnresolvedNeverInvokes ==
    Unresolved =>
        /\ invoked = <<>>
        /\ Processed => terminal = "Failed"

\* C7 witness: a call-tool naming "missing" has been dispatched.
C7_Witness ==
    /\ Unresolved
    /\ Processed
    /\ request.method = "call-tool"
    /\ request.name = "missing"

\* C8: dispatch of an invoke request naming a capability registered in the
\* registry of that kind runs the behaviour registered there under that
\* name, once, and runs nothing else.
C8_ResolvedInvokesExactlyOnce ==
    (Resolved /\ Processed) =>
        LET kind == Kind(request.method)
            rec == Lookup(OwnRegistry(kind), request.name).value
        IN  invoked = <<[kind |-> kind, name |-> request.name,
                         behavior |-> rec.behavior]>>

\* C8 witness: get-prompt naming "Now" ran NowPrompt.
C8_Witness ==
    /\ Resolved
    /\ Processed
    /\ request.method = "get-prompt"
    /\ Len(invoked) = 1
    /\ invoked[1].behavior = "NowPrompt"

\* The register calls ContextServerState::new makes.
ExpectedRegistrations ==
    <<[kind |-> "Tool", name |-> "now"], [kind |-> "Prompt", name |-> "Now"]>>

\* C9: every register call is made before the dispatcher is built, before
\* the first line is read and before the first lookup or list; once a line
\* has been read or a lookup made, both registrations are complete and the
\* dispatcher holds the registries as they were registered.
C9_InitializationBarrier ==
    /\ \A i \in 1..Len(registerLog) :
          /\ ~registerLog[i].afterBuild
          /\ registerLog[i].linesRead = 0
          /\ registerLog[i].lookups = 0
    /\ (rpc.built \/ nRead > 0 \/ nLookups > 0 \/ pc \notin {"new", "tools", "prompts", "build"}) =>
          /\ rpc.built
          /\ [i \in 1..Len(registerLog) |->
                [kind |-> registerLog[i].kind, name |-> registerLog[i].name]]
             = ExpectedRegistrations
          /\ rpc.tools = tool_registry
          /\ rpc.prompts = prompt_registry
          /\ rpc.resources = resource_registry
          /\ Has(tool_registry, "now")
          /\ Has(prompt_registry, "Now")

\* C9 witness: lookups have been served after both registrations.
C9_Witness ==
    /\ nLookups = 2
    /\ Len(registerLog) = 2
    /\ rpc.built

\* C10: a transport failure (a failed read of standard input, a failed write
\* or flush of standard output) is fatal: main has returned with an error,
\* and nothing is read or written any more.
C10_TransportFailureIsFatal ==
    ioFailure # "none" =>
        /\ pc = "exit_err"
        /\ exitCause = (IF ioFailure = "read" THEN "read_err" ELSE "write_err")
        /\ ~ENABLED Next

\* C10 witness: standard output failed while the second response was being
\* written.
C10_Witness ==
    /\ ioFailure = "write"
    /\ nRead = 2
    /\ Len(stdout) = 1


\* The records passed to register under name n, in call order.
CallsUnder(n) == SelectSeq(calls, LAMBDA r : r.name = n)

\* What lookup(n) must answer after the register calls made so far: absence
\* for a name never registered; for a registered name a record registered
\* under it, which is the record itself when only one was.
CorrectLookup(n, res) ==
    IF Len(CallsUnder(n)) = 0
    THEN res = None
    ELSE /\ res.some
         /\ \E i \in 1..Len(CallsUnder(n)) : res.value = CallsUnder(n)[i]
         /\ res.value.name = n

\* C11: after any sequence of register calls on a registry, lookup(n) returns
\* exactly the record registered under n for every registered name n (one of
\* the records registered under n, were n registered more than once), and
\* absence for every name never registered.
C11_LookupRoundTrip ==
    phase # "off" =>
        /\ \A n \in LookupNames : CorrectLookup(n, Lookup(reg, n))
        /\ \A p \in Lookers :
              (lk[p].pc = "done" /\ lk[p].op = "lookup") =>
                  CorrectLookup(lk[p].name, lk[p].result)

\* C11 witness: "a" and "b" were registered, one reader got the record
\* registered under "b" and another got absence for "missing".
C11_Witness ==
    /\ phase = "steady"
    /\ calls = <<BenchRecord("a", "v1"), BenchRecord("b", "v2")>>
    /\ lk[1].pc = "done" /\ lk[1].name = "b"
    /\ lk[1].result = Some(BenchRecord("b", "v2"))
    /\ lk[2].pc = "done" /\ lk[2].name = "missing"
    /\ lk[2].result = None

\* No two register calls made so far carry the same name.
DistinctNames ==
    \A i, j \in 1..Len(calls) : i # j => calls[i].name # calls[j].name

\* A dispatcher whose Tool registry is the given one.
ServerWith(tools) ==
    [built |-> TRUE,
     server_info |-> [name |-> "CARGO_PKG_NAME", version |-> "CARGO_PKG_VERSION"],
     resources |-> RegistryDefault, tools |-> tools, prompts |-> RegistryDefault]

ListToolsRequest ==
    [kind |-> "request", method |-> "list-tools", id |-> 1, name |-> "",
     arguments |-> None]

\* C12 as stated: list() after k register calls returns exactly k
\* descriptors, the i-th equal to the descriptor of the i-th call.
C12_OneDescriptorPerCall ==
    phase # "off" =>
        /\ Len(List(reg)) = Len(calls)
        /\ {List(reg)[i] : i \in 1..Len(List(reg))}
           = {calls[i].descriptor : i \in 1..Len(calls)}

\* C12 (amended): list() after k register calls under pairwise distinct
\* names returns exactly k descriptors, each equal field for field to the
\* descriptor registered; whatever the calls, it returns one descriptor per
\* registered name, each a descriptor registered under that name; a reader's
\* list() and a list-tools request return that same enumeration, so with
\* "a" and "b" registered list-tools enumerates exactly {"a", "b"}.
C12_ListReturnsRegistered ==
    phase # "off" =>
        LET l == List(reg)
            answer == handle_incoming_message(ServerWith(reg), ListToolsRequest)
        IN  /\ DistinctNames =>
                  /\ Len(l) = Len(calls)
                  /\ {l[i] : i \in 1..Len(l)}
                     = {calls[i].descriptor : i \in 1..Len(calls)}
            /\ Len(l) = Cardinality({calls[i].name : i \in 1..Len(calls)})
            /\ {l[i].name : i \in 1..Len(l)} = {calls[i].name : i \in 1..Len(calls)}
            /\ \A i \in 1..Len(l) :
                  \E j \in 1..Len(calls) : l[i] = calls[j].descriptor
            /\ answer.terminal = "Completed"
            /\ answer.response = Some([id |-> 1, kind |-> "result", body |-> l])
            /\ \A p \in Lookers :
                  (lk[p].pc = "done" /\ lk[p].op = "list") => lk[p].listing = l

\* C12 witness: "a" and "b" were registered and a reader's list() returned
\* two descriptors.
C12_Witness ==
    /\ phase = "steady"
    /\ calls = <<BenchRecord("a", "v1"), BenchRecord("b", "v1")>>
    /\ lk[1].pc = "done"
    /\ lk[1].op = "list"
    /\ {lk[1].listing[i].name : i \in 1..Len(lk[1].listing)} = {"a", "b"}

\* The registry that the register calls made so far build.
Populated ==
    LET f[i \in 0..Len(calls)] ==
            IF i = 0 THEN RegistryDefault ELSE Register(f[i - 1], calls[i])
    IN  f[Len(calls)]

\* C13: in steady state, with readers at any point of their lookups, the
\* registry holds the entries it was populated with, and every lookup that
\* has finished returned the right answer for its name.
C13_ConcurrentLookups ==
    phase = "steady" =>
        /\ reg = Populated
        /\ Len(reg) = Cardinality({calls[i].name : i \in 1..Len(calls)})
        /\ \A p \in Lookers :
              (lk[p].pc = "done" /\ lk[p].op = "lookup") =>
                  /\ CorrectLookup(lk[p].name, lk[p].result)
                  /\ lk[p].result = Lookup(Populated, lk[p].name)

\* C13 witness: against a registry of two entries, one lookup of "a" has
\* finished with the record while another lookup of "a" is under way.
C13_Witness ==
    /\ phase = "steady"
    /\ Len(reg) = 2
    /\ lk[1].pc = "done" /\ lk[1].op = "lookup" /\ lk[1].name = "a"
    /\ lk[1].result.some
    /\ lk[2].pc = "reading" /\ lk[2].op = "lookup" /\ lk[2].name = "a"

\* C14: with the tool "now" registered, a call-tool naming "now", with or
\* without arguments, ends in Completed, never in Failed; its response (a
\* request with an id gets one) is a success whose content is a non-empty
\* sequence holding a text block with non-empty text.
C14_NowToolSucceeds ==
    (/\ request.kind = "request"
     /\ request.method = "call-tool"
     /\ request.name = "now"
     /\ Processed) =>
        /\ terminal = "Completed"
        /\ response.some <=> request.id # NoId
        /\ response.some =>
              LET content == response.value.body
              IN  /\ response.value.kind = "result"
                  /\ Len(content) > 0
                  /\ \E i \in 1..Len(content) :
                        /\ content[i].type = "text"
                        /\ Len(content[i].text) > 0
                        /\ \A j \in 1..Len(content[i].text) : content[i].text[j] # ""

\* C14 witness: a call-tool naming "now" with arguments has been answered.
C14_Witness ==
    /\ request.kind = "request"
    /\ request.method = "call-tool"
    /\ request.name = "now"
    /\ request.arguments.some
    /\ terminal = "Completed"
    /\ pc = "read"
    /\ Len(stdout) = 1
    /\ stdout[1].json.kind = "result"

\* C15: routing depends on the method name alone: a list method returns the
\* enumeration of the one registry of its kind; an invoke method resolves
\* its name in the one registry of its kind and nowhere else, so it
\* completes exactly when the name is registered there and runs only a
\* behaviour of that kind.  "now", registered only as a tool, is never
\* resolved by get-prompt or read-resource, and "Now", registered only as a
\* prompt, never by call-tool or read-resource.
C15_RoutingByMethod ==
    (request.kind = "request" /\ Processed /\ request.method # "initialize") =>
        LET kind == Kind(request.method)
            own == OwnRegistry(kind)
        IN  /\ kind \in {"Tool", "Prompt", "Resource"}
            /\ request.method \in ListMethods =>
                  /\ terminal = "Completed"
                  /\ invoked = <<>>
                  /\ response.some => response.value.body = List(own)
            /\ request.method \in InvokeMethods =>
                  /\ terminal = "Completed" <=> Has(own, request.name)
                  /\ \A i \in 1..Len(invoked) :
                        /\ invoked[i].kind = kind
                        /\ Lookup(own, invoked[i].name).some
                        /\ Lookup(own, invoked[i].name).value.behavior = invoked[i].behavior
            /\ (request.name = "now" /\ request.method \in {"get-prompt", "read-resource"}) =>
                  terminal = "Failed" /\ invoked = <<>>
            /\ (request.name = "Now" /\ request.method \in {"call-tool", "read-resource"}) =>
                  terminal = "Failed" /\ invoked = <<>>

\* C15 witness: a get-prompt naming the tool's name "now" ended in Failed.
C15_Witness ==
    /\ request.kind = "request"
    /\ request.method = "get-prompt"
    /\ request.name = "now"
    /\ terminal = "Failed"

\* C16: once the dispatcher is built, no step of the program (handling a
\* request of any method, to Completed or to Failed, included) changes any of
\* the three registries, the dispatcher's view of them, or the server
\* identity; and what a request is answered with depends on the request and
\* the registries only.
C16_HandlingLeavesRegistriesUnchanged ==
    [][/\ rpc.built =>
             UNCHANGED <<resource_registry, tool_registry, prompt_registry, rpc>>
       /\ (pc = "process" /\ pc' # "process") =>
             response' = handle_incoming_message(rpc, request).response]_vars

\* C16 witness: a request has completed, another has failed, and the
\* registries are as registered.
C16_Witness ==
    /\ rpc.built
    /\ Len(stdout) = 1
    /\ stdout[1].json.kind = "result"
    /\ nRead = 2
    /\ terminal = "Failed"
    /\ Has(tool_registry, "now")
    /\ Has(prompt_registry, "Now")

\* C17: while a request is being processed and its invocation has not
\* completed, the only step the program can take is the completion of that
\* request: until then no line is read and nothing is written or flushed, so
\* an invocation that never completes stalls the loop for good.
C17_StallsUntilInvocationCompletes ==
    [][pc = "process" =>
          /\ ProcessRequest
          /\ UNCHANGED <<nRead, line, wbuf, stdout>>]_vars

\* C17 witness: the loop is waiting on the invocation of "now" for the
\* second request, with one response written so far.
C17_Witness ==
    /\ pc = "process"
    /\ Resolved
    /\ nRead = 2
    /\ Len(stdout) = 1

\* The names held by a registry, in order.
NamesOf(registry) == [i \in 1..Len(registry) |-> registry[i].name]

\* C18: whenever a request is being served, the Tool registry holds exactly
\* one entry, "now", the Prompt registry exactly one, "Now", and the Resource
\* registry none; list-resources is answered with the empty enumeration,
\* every read-resource ends in Not Found, and a get-prompt naming "now" is
\* not resolved (lookup matches the exact name).
C18_RegistryContents ==
    pc \notin {"new", "tools", "prompts", "build"} =>
        /\ NamesOf(tool_registry) = <<"now">>
        /\ NamesOf(prompt_registry) = <<"Now">>
        /\ resource_registry = <<>>
        /\ NamesOf(rpc.tools) = <<"now">>
        /\ NamesOf(rpc.prompts) = <<"Now">>
        /\ rpc.resources = <<>>
        /\ (Processed /\ request.method = "list-resources") =>
              /\ terminal = "Completed"
              /\ response.some => response.value.body = <<>>
        /\ (Processed /\ request.method = "read-resource") =>
              /\ terminal = "Failed"
              /\ response.some => response.value.body = NotFound(request.name)
        /\ (Processed /\ request.method = "get-prompt" /\ request.name = "now") =>
              /\ terminal = "Failed"
              /\ response.some => response.value.body = NotFound("now")
        /\ (Processed /\ request.method = "get-prompt" /\ request.name = "Now") =>
              terminal = "Completed"

\* C18 witness: list-resources was answered with nothing and a read-resource
\* with Not Found.
C18_Witness ==
    /\ Len(stdout) = 2
    /\ stdout[1].json.kind = "result"
    /\ stdout[1].json.body = <<>>
    /\ stdout[2].json.kind = "error"
    /\ request.kind = "request"
    /\ request.method = "read-resource"
    /\ pc = "read"

\* An I/O or handling error has happened.
ErrorOccurred ==
    \/ ioFailure # "none"
    \/ exitCause \in {"invalid_data", "handler_err"}

\* C19: for a finite input on which every invocation completes, unless an
\* I/O or handling error occurs the loop eventually reaches the end of input
\* and main returns successfully, with exactly one response line on standard
\* output for each decoded request that carries an id, nothing left
\* unflushed; and after main has returned no step follows.
C19_TerminatesSuccessfully ==
    /\ <>(\/ ErrorOccurred
          \/ /\ pc = "exit_ok"
             /\ exitCause = "eof"
             /\ wbuf = <<>>
             /\ Len(stdout) = Cardinality(expected)
             /\ {stdout[i].src : i \in 1..Len(stdout)} = expected)
    /\ [][pc \notin {"exit_ok", "exit_err"}]_vars

\* C19 witness: main returned at the end of a three-line input having
\* answered the two requests that carried an id.
C19_Witness ==
    /\ pc = "exit_ok"
    /\ nRead = 3
    /\ expected = {1, 3}
    /\ Len(stdout) = 2
    /\ malformed = 0

====
